---- MODULE Spec2Model ----
(***************************************************************************)
(* Model of the NOMAD -> STAC catalog build (src/src/processing.py) and of *)
(* the folder bookkeeping it relies on (src/src/io.py).                    *)
(*                                                                         *)
(* CatalogCreator.create_catalog is one sequential process; `pc` is its    *)
(* position in the code.  The input folder is a flat listing (how many     *)
(* *.geojson, *.json and other entries it holds); the content of an        *)
(* eligible file is drawn when the file is read.  The output folder is a   *)
(* tree of directories and files.                                          *)
(***************************************************************************)
EXTENDS Integers, Sequences, FiniteSets, TLC

VARIABLES
    input_folder,            \* IoHandler.input_folder: [geojson, json, other] entry counts
    output_folder,           \* IoHandler.output_folder: [dirs, files] under the output root
    clean_previous_output,   \* argument of create_catalog
    pc,                      \* position of create_catalog
    aborted_from,            \* the position at which an exception left create_catalog
    error,                   \* the exception that reached the caller of create_catalog
    log,                     \* log.warning and log.error records
    todo,                    \* clean_output_folder: unlink/rmdir calls still to make
    dfs,                     \* folder_as_geopandas: _dfs, the frames read so far
    df,                      \* create_catalog: df, the unified table (<<>>: none)
    row_index,               \* create_catalog: rows df.itertuples() has yielded
    collection,              \* create_catalog: collection
    catalog,                 \* create_catalog: catalog
    analysis_folder,         \* RawDataAnalysis.io_handler.output_folder: exports written
    obj,                     \* the item handed to SolSysExtension.ext
    applied,                 \* the arguments of the calls of SolSysExtension.apply so far
    result,                  \* what the last read of an extension property gave
    summaries                \* the collection handed to SolSysExtension.summaries

build_vars == <<input_folder, output_folder, clean_previous_output, pc, aborted_from,
                error, log, todo, dfs, df, row_index, collection, catalog, analysis_folder>>
ext_vars == <<obj, applied, result, summaries>>
vars == <<build_vars, ext_vars>>

----------------------------------------------------------------------------
(* Bounds of the model *)

\* most eligible (*.geojson / *.json) files in the input folder
MaxFiles == 2
\* most other entries (other files, sub-directories) in the input folder
MaxOther == 1
\* most calls of SolSysExtension.apply on one item
MaxApplies == 2

----------------------------------------------------------------------------
(* Small helpers *)

Last(s) == s[Len(s)]
Front(s) == SubSeq(s, 1, Len(s) - 1)
Range(s) == {s[i] : i \in 1..Len(s)}
Min(a, b) == IF a <= b THEN a ELSE b
Max(a, b) == IF a >= b THEN a ELSE b

----------------------------------------------------------------------------
(* Folders: pathlib.Path.walk, counting, emptiness, cleaning (io.py) *)

DirNames == {"d", "e"}
FileNames == {"f"}
\* the order in which a directory lists its entries
NameOrder == <<"d", "e", "f">>

\* the paths that may exist under the output root when the build starts
OutputPaths ==
    { <<"d">>, <<"e">>, <<"f">>, <<"d", "d">>, <<"d", "f">>, <<"e", "f">>,
      <<"d", "d", "f">> }

\* what a file holds: the kind and id of the STAC object written to it and, for
\* an item, the table row it was built from; or what was there before the build
FileContent(type, id, row) == [type |-> type, id |-> id, row |-> row]
StaleContent == FileContent("stale", "", 0)

IsTree(T) == \A p \in T : Len(p) > 1 => Front(p) \in T

FolderOf(T) ==
    [dirs |-> {p \in T : Last(p) \in DirNames},
     files |-> {[path |-> p, content |-> StaleContent] : p \in {q \in T : Last(q) \in FileNames}}]

EmptyFolder == [dirs |-> {}, files |-> {}]

FilePaths(folder) == {f.path : f \in folder.files}

\* names of the sub-directories / files directly under root, in listing order
ChildDirs(folder, root) ==
    SelectSeq(NameOrder, LAMBDA n : Append(root, n) \in folder.dirs)
ChildFiles(folder, root) ==
    SelectSeq(NameOrder, LAMBDA n : Append(root, n) \in FilePaths(folder))

RECURSIVE WalkAll(_, _, _, _)
RECURSIVE walk(_, _, _)
\* Path.walk(top_down): the (root, dirs, files) triples, a directory before
\* (top_down) or after (bottom-up) everything below it
walk(folder, root, top_down) ==
    LET here == <<[root |-> root, dirs |-> ChildDirs(folder, root),
                   files |-> ChildFiles(folder, root)]>>
        below == WalkAll(folder, root, ChildDirs(folder, root), top_down)
    IN IF top_down THEN here \o below ELSE below \o here
WalkAll(folder, root, names, top_down) ==
    IF names = <<>> THEN <<>>
    ELSE walk(folder, Append(root, Head(names)), top_down)
         \o WalkAll(folder, root, Tail(names), top_down)

RECURSIVE CountTriples(_)
CountTriples(triples) ==
    IF triples = <<>> THEN 0
    ELSE Len(Head(triples).dirs) + Len(Head(triples).files) + CountTriples(Tail(triples))

RECURSIVE CountFilesOnly(_)
CountFilesOnly(triples) ==
    IF triples = <<>> THEN 0
    ELSE Len(Head(triples).files) + CountFilesOnly(Tail(triples))

\* variant: the sub-directories are left out of the count
count_output_elements_files_only == CountFilesOnly(walk(output_folder, <<>>, TRUE))

\* IoHandler.count_output_elements
count_output_elements == CountTriples(walk(output_folder, <<>>, TRUE))

count_input_elements ==
    input_folder.geojson + input_folder.json + input_folder.other

is_input_folder_empty == count_input_elements = 0
is_output_folder_empty == count_output_elements = 0

\* the calls clean_output_folder makes, in order
RECURSIVE OpsOf(_)
OpsOf(triples) ==
    IF triples = <<>> THEN <<>>
    ELSE LET t == Head(triples)
         IN [i \in 1..Len(t.files) |-> [op |-> "unlink", path |-> Append(t.root, t.files[i])]]
            \o [i \in 1..Len(t.dirs) |-> [op |-> "rmdir", path |-> Append(t.root, t.dirs[i])]]
            \o OpsOf(Tail(triples))

\* variant: the walk is top-down, a directory before what it holds
clean_output_folder_top_down == OpsOf(walk(output_folder, <<>>, TRUE))

\* IoHandler.clean_output_folder
clean_output_folder == OpsOf(walk(output_folder, <<>>, FALSE))

\* what lies directly under a directory
Children(folder, p) ==
    {q \in folder.dirs \cup FilePaths(folder) : Len(q) = Len(p) + 1 /\ Front(q) = p}

unlink(folder, p) ==
    [folder EXCEPT !.files = {f \in @ : f.path # p}]
rmdir(folder, p) ==
    [folder EXCEPT !.dirs = @ \ {p}]

----------------------------------------------------------------------------
(* Input files and the record table (RawDataAnalysis, processing.py) *)

PsaLids == {"p1", "p2"}
\* a footprint is the set of its vertices <<lon, lat>>; {} is a null geometry
NullGeometry == {}
Geometries == { {<<0, 0>>, <<1, 1>>}, {<<1, 2>>, <<2, 1>>}, NullGeometry }
\* <<utc_start_time, utc_end_time>> as written in a file, in microseconds
TimeRanges == { <<0, 1>>, <<1, 2>> }
DiffractionOrders == {1, 2}

\* the diffraction order of the observations of a time range (no code reads
\* the column, so the orders are not drawn apart from the time ranges)
DiffractionOrderAt(t) == CHOOSE o \in DiffractionOrders : o = t[2]

Features ==
    { [psa_lid |-> i, geometry |-> g, utc_start_time |-> t[1], utc_end_time |-> t[2],
       diffraction_order |-> DiffractionOrderAt(t), hdf5_filename |-> i \o ".h5",
       martian_year |-> 34, ls |-> 150, local_solar_time |-> 12]
      : i \in PsaLids, g \in Geometries, t \in TimeRanges }

\* what an eligible file may hold: one feature, text that is no GeoJSON, or a
\* feature collection without the utc_start_time column
FileContents ==
    { [kind |-> "geojson", features |-> <<f>>] : f \in Features }
    \cup { [kind |-> k, features |-> <<>>] : k \in {"not_geojson", "no_utc_start_time"} }

NoError == [class |-> "none", msg |-> ""]
Exception(c, m) == [class |-> c, msg |-> m]

\* pd.to_datetime: a pandas Timestamp counts nanoseconds
to_datetime(us) == us * 1000
\* Timestamp.to_pydatetime: a datetime counts microseconds
to_pydatetime(ts) == ts \div 1000

\* RawDataAnalysis.read_geojson: the frame of a file, or the exception raised
read_geojson(fn) ==
    IF fn.kind = "not_geojson"
    THEN [ok |-> FALSE, gdf |-> <<>>, exc |-> Exception("DataSourceError", "not recognized as a supported file format")]
    ELSE IF fn.kind = "no_utc_start_time"
    THEN [ok |-> FALSE, gdf |-> <<>>, exc |-> Exception("KeyError", "utc_start_time")]
    ELSE [ok |-> TRUE,
          gdf |-> [i \in 1..Len(fn.features) |->
                     [fn.features[i] EXCEPT !.utc_start_time = to_datetime(@),
                                            !.utc_end_time = to_datetime(@)]],
          exc |-> NoError]

\* IoHandler.all_input_files_from_ext: the files of one extension, by index
all_input_files_from_ext(extension) ==
    IF extension = "geojson" THEN [i \in 1..input_folder.geojson |-> <<"geojson", i>>]
    ELSE IF extension = "json" THEN [i \in 1..input_folder.json |-> <<"json", i>>]
    ELSE <<>>

\* folder_as_geopandas: chain(geojson files, json files)
file_iterator == all_input_files_from_ext("geojson") \o all_input_files_from_ext("json")

RECURSIVE concat(_)
\* pd.concat: the rows of the frames, in order; no frames is an error
concat(frames) ==
    IF frames = <<>> THEN <<>> ELSE Head(frames) \o concat(Tail(frames))

\* save_to_format: the driver the export is written with ("none": nothing written)
save_to_format(fmt_name) ==
    IF fmt_name \in {"shp", "other"} THEN "ESRI Shapefile"
    ELSE IF fmt_name = "geojson" THEN "GeoJSON"
    ELSE IF fmt_name = "geopackage" THEN "GPKG"
    ELSE "none"

----------------------------------------------------------------------------
(* Extent of a table (create_catalog, lines 146-163) *)

RECURSIVE MinOver(_)
RECURSIVE MaxOver(_)
MinOver(S) == LET x == CHOOSE y \in S : TRUE
              IN IF S = {x} THEN x ELSE Min(x, MinOver(S \ {x}))
MaxOver(S) == LET x == CHOOSE y \in S : TRUE
              IN IF S = {x} THEN x ELSE Max(x, MaxOver(S \ {x}))

\* shapely.bounds: <<minx, miny, maxx, maxy>> of a geometry
bounds(geom) ==
    <<MinOver({p[1] : p \in geom}), MinOver({p[2] : p \in geom}),
      MaxOver({p[1] : p \in geom}), MaxOver({p[2] : p \in geom})>>

\* <<>> stands for a box of NaN
NaNBox == <<>>

\* numpy nanmin / nanmax of two boxes, component by component
MergeBox(a, b) ==
    IF a = NaNBox THEN b
    ELSE IF b = NaNBox THEN a
    ELSE <<Min(a[1], b[1]), Min(a[2], b[2]), Max(a[3], b[3]), Max(a[4], b[4])>>

RECURSIVE total_bounds(_)
\* GeoSeries.total_bounds: null geometries are skipped
total_bounds(table) ==
    IF table = <<>> THEN NaNBox
    ELSE LET g == Head(table).geometry
         IN MergeBox(IF g = NullGeometry THEN NaNBox ELSE bounds(g),
                     total_bounds(Tail(table)))

RECURSIVE Insert(_, _, _)
Insert(x, sorted, ascending) ==
    IF sorted = <<>> THEN <<x>>
    ELSE IF (ascending /\ x <= Head(sorted)) \/ (~ascending /\ x >= Head(sorted))
         THEN <<x>> \o sorted
         ELSE <<Head(sorted)>> \o Insert(x, Tail(sorted), ascending)

RECURSIVE sort_values(_, _)
\* Series.sort_values
sort_values(column, ascending) ==
    IF column = <<>> THEN <<>>
    ELSE Insert(Head(column), sort_values(Tail(column), ascending), ascending)

Column(table, name) == [i \in 1..Len(table) |-> table[i][name]]

\* variant: the box of the first row alone
spatial_extent_first_row(table) == total_bounds(<<Head(table)>>)

\* lines 147-149
spatial_extent(table) == total_bounds(table)

\* variant: utc_end_time is sorted ascending like utc_start_time
temporal_extent_end_ascending(table) ==
    << to_pydatetime(Head(sort_values(Column(table, "utc_start_time"), TRUE))),
       to_pydatetime(Head(sort_values(Column(table, "utc_end_time"), TRUE))) >>

\* lines 150-160
temporal_extent(table) ==
    << to_pydatetime(Head(sort_values(Column(table, "utc_start_time"), TRUE))),
       to_pydatetime(Head(sort_values(Column(table, "utc_end_time"), FALSE))) >>

collection_extent(table) ==
    [spatial |-> spatial_extent(table), temporal |-> temporal_extent(table)]

----------------------------------------------------------------------------
(* Items, collection and catalog (CatalogCreator, processing.py) *)

EO_SCHEMA_URI == "https://stac-extensions.github.io/eo/v1.1.0/schema.json"
SCHEMA_URI == "https://stac-extensions.github.io/ssys/v1.1.0/schema.json"
PROJECTION_SCHEMA_URI == "https://stac-extensions.github.io/projection/v2.0.0/schema.json"

\* CatalogCreator.bands, fixed for a build
bands == <<"LNO">>

NoItem ==
    [id |-> "", geometry |-> NullGeometry, bbox |-> NaNBox, datetime |-> 0,
     properties |-> <<>>, assets |-> <<>>, stac_extensions |-> <<>>, href |-> <<>>]

\* the item of a row that has a geometry, with the given end_datetime
ItemOf(df_line, end_datetime_utc) ==
    [id |-> df_line.psa_lid,
     geometry |-> df_line.geometry,
     bbox |-> bounds(df_line.geometry),
     datetime |-> to_pydatetime(df_line.utc_start_time),
     properties |->
         ("start_datetime" :> to_pydatetime(df_line.utc_start_time))
         @@ ("end_datetime" :> end_datetime_utc)
         @@ ("platform" :> "exomars-trace-gas-orbiter")
         @@ ("instruments" :> <<"nomad">>)
         @@ ("constellation" :> "exomars"),
     assets |-> <<>>,
     stac_extensions |-> <<>>,
     href |-> <<>>]

NullGeometryError ==
    Exception("TypeError", "the JSON object must be str, bytes or bytearray, not NoneType")

\* variant: end_datetime is given the start time
gpd_line_to_item_end_is_start(df_line) ==
    IF df_line.geometry = NullGeometry
    THEN [ok |-> FALSE, item |-> NoItem, exc |-> NullGeometryError]
    ELSE [ok |-> TRUE, item |-> ItemOf(df_line, to_pydatetime(df_line.utc_start_time)),
          exc |-> NoError]

\* gpd_line_to_item: the item of a row, or the exception raised
\* (json.loads(to_geojson(None)) is a TypeError)
gpd_line_to_item(df_line) ==
    IF df_line.geometry = NullGeometry
    THEN [ok |-> FALSE, item |-> NoItem, exc |-> NullGeometryError]
    ELSE [ok |-> TRUE, item |-> ItemOf(df_line, to_pydatetime(df_line.utc_end_time)),
          exc |-> NoError]

\* variant: the asset is stored under the name of its file
add_asset_keyed_by_filename(item, data_row) ==
    [item EXCEPT !.assets =
        (data_row.hdf5_filename :>
            [href |-> data_row.hdf5_filename, media_type |-> "application/x-hdf5"]) @@ @]

\* add_asset
add_asset(item, data_row) ==
    [item EXCEPT !.assets =
        ("dataformat" :> [href |-> data_row.hdf5_filename, media_type |-> "application/x-hdf5"]) @@ @]

\* a Python value that may be None: None, or a value that is not None
None == [is_none |-> TRUE]
Value(v) == [is_none |-> FALSE, value |-> v]

\* str(n) of an integer n >= 0: its decimal digits, a string being the
\* sequence of its characters
Digits == <<"0", "1", "2", "3", "4", "5", "6", "7", "8", "9">>
RECURSIVE str(_)
str(n) == IF n < 10 THEN <<Digits[n + 1]>> ELSE str(n \div 10) \o <<Digits[(n % 10) + 1]>>

\* add_extensions: f"{martian_year}:{ls}:{local_solar_time}"
mars_local_time(data_row) ==
    str(data_row.martian_year) \o <<":">> \o str(data_row.ls) \o <<":">>
        \o str(data_row.local_solar_time)

\* ssys_extension.py: the names of the properties
PREFIX == "ssys:"
TARGETS_PROPS == PREFIX \o "targets"
LOCAL_TIME_PROPS == PREFIX \o "local_time"
TARGET_CLASS_PROPS == PREFIX \o "target_class"

\* SolSysTargetClass
SolSysTargetClass ==
    {"asteroid", "dwarf_planet", "planet", "satellite", "comet", "exoplanet",
     "interplanetary_medium", "sample", "sky", "spacecraft", "spacejunk", "star",
     "calibration"}

\* self._set_property(prop_name, v, pop_if_none): None removes the key when
\* pop_if_none, and is stored under it otherwise
set_property(properties, prop_name, v, pop_if_none) ==
    IF v = None /\ pop_if_none
    THEN [k \in DOMAIN properties \ {prop_name} |-> properties[k]]
    ELSE (prop_name :> v) @@ properties

\* self._get_property(prop_name, type): properties.get(prop_name)
get_property(properties, prop_name) ==
    IF prop_name \in DOMAIN properties THEN properties[prop_name] ELSE None

RequiredPropertyMissing(prop) == Exception("RequiredPropertyMissing", prop)

\* variant: a missing property is read as None
get_required_or_none(option, prop) == [ok |-> TRUE, value |-> option, exc |-> NoError]

\* get_required(option, self, prop): the value, or RequiredPropertyMissing
get_required(option, prop) ==
    IF option = None
    THEN [ok |-> FALSE, value |-> None, exc |-> RequiredPropertyMissing(prop)]
    ELSE [ok |-> TRUE, value |-> option, exc |-> NoError]

\* the getters of SolSysExtension
get_targets(item) == get_required(get_property(item.properties, TARGETS_PROPS), TARGETS_PROPS)
get_local_time(item) ==
    get_required(get_property(item.properties, LOCAL_TIME_PROPS), LOCAL_TIME_PROPS)
get_target_class(item) ==
    get_required(get_property(item.properties, TARGET_CLASS_PROPS), TARGET_CLASS_PROPS)

\* the setters of SolSysExtension
set_targets(item, v) ==
    [item EXCEPT !.properties = set_property(@, TARGETS_PROPS, v, FALSE)]
set_local_time(item, v) ==
    [item EXCEPT !.properties = set_property(@, LOCAL_TIME_PROPS, v, FALSE)]
set_target_class(item, v) ==
    [item EXCEPT !.properties = set_property(@, TARGET_CLASS_PROPS, v, FALSE)]

\* variant: the targets given are added to the targets the item has
apply_extending_targets(item, targets, local_time, target_class) ==
    LET old == get_property(item.properties, TARGETS_PROPS)
        new == IF old = None \/ targets = None THEN targets
               ELSE Value(old.value \o targets.value)
    IN set_target_class(set_local_time(set_targets(item, new), local_time), target_class)

\* variant: an argument that is None leaves its property as it was
apply_keeping_omitted(item, targets, local_time, target_class) ==
    LET a == IF targets = None THEN item ELSE set_targets(item, targets)
        b == IF local_time = None THEN a ELSE set_local_time(a, local_time)
    IN IF target_class = None THEN b ELSE set_target_class(b, target_class)

\* variant: apply also stamps the mission among the properties
apply_stamping_mission(item, targets, local_time, target_class) ==
    LET it == set_target_class(set_local_time(set_targets(item, targets), local_time),
                               target_class)
    IN [it EXCEPT !.properties = ("mission" :> "mars") @@ @]

\* SolSysExtension.apply
apply(item, targets, local_time, target_class) ==
    set_target_class(set_local_time(set_targets(item, targets), local_time), target_class)

\* ExtensionManagementMixin: add_to, has_extension, ensure_has_extension
has_extension(item, uri) == uri \in Range(item.stac_extensions)
add_to(item, uri) ==
    IF has_extension(item, uri) THEN item
    ELSE [item EXCEPT !.stac_extensions = Append(@, uri)]
ensure_has_extension(item, uri, add_if_missing) ==
    LET it == IF add_if_missing THEN add_to(item, uri) ELSE item
    IN IF has_extension(it, uri)
       THEN [ok |-> TRUE, item |-> it, exc |-> NoError]
       ELSE [ok |-> FALSE, item |-> it, exc |-> Exception("ExtensionNotImplemented", uri)]

\* SolSysExtension.ext(obj, add_if_missing), obj an item
ext(item, add_if_missing) == ensure_has_extension(item, SCHEMA_URI, add_if_missing)

\* add_extensions: eo = EOExtension.ext(item, add_if_missing=True); eo.apply(bands=self.bands)
\* (the cloud_cover and snow_cover it is not given are removed)
eo(item) ==
    [add_to(item, EO_SCHEMA_URI) EXCEPT !.properties =
        set_property(set_property(set_property(@, "eo:bands", Value(bands), TRUE),
                                  "eo:cloud_cover", None, TRUE),
                     "eo:snow_cover", None, TRUE)]

\* add_extensions: ssys = SolSysExtension.ext(item, add_if_missing=True); ssys.apply(...)
ssys(item, data_row) ==
    apply(ext(item, TRUE).item, Value(<<"mars">>), Value(mars_local_time(data_row)),
          Value("planet"))

\* add_extensions: proj = ProjectionExtension.ext(item, add_if_missing=True);
\* proj.apply(wkt2=default_wkt) (the code it is not given is stored as None)
proj(item) ==
    [add_to(item, PROJECTION_SCHEMA_URI) EXCEPT !.properties =
        set_property(set_property(@, "proj:code", None, FALSE),
                     "proj:wkt2", Value("default_wkt"), TRUE)]

\* variant: the mission metadata is left as gpd_line_to_item set it
add_extensions_without_mission(item, data_row) == proj(ssys(eo(item), data_row))

\* add_extensions
add_extensions(item, data_row) ==
    [proj(ssys(eo(item), data_row)) EXCEPT !.properties =
        ("instruments" :> <<"NOMAD">>) @@ ("mission" :> "ExoMars") @@ @]

NoCatalog == [id |-> "", children |-> <<>>, href |-> <<>>, catalog_type |-> "none"]
NoCollection ==
    [id |-> "", extent |-> [spatial |-> NaNBox, temporal |-> <<>>], license |-> "",
     items |-> <<>>, children |-> <<>>, href |-> <<>>]

\* pystac.Collection(id=..., extent=..., license=...)
NewCollection(table) ==
    [id |-> "lno-10-days-2018", extent |-> collection_extent(table),
     license |-> "CC-BY-SA-4.0", items |-> <<>>, children |-> <<>>, href |-> <<>>]

\* variant: an item whose id the collection already holds is not added
add_item_unless_present(coll, item) ==
    IF \E i \in 1..Len(coll.items) : coll.items[i].id = item.id
    THEN coll
    ELSE [coll EXCEPT !.items = Append(@, item)]

\* collection.add_item
add_item(coll, item) == [coll EXCEPT !.items = Append(@, item)]

\* catalog.add_child
add_child(cat, coll) == [cat EXCEPT !.children = Append(@, coll.id)]

\* catalog.normalize_hrefs: where each object will be written, under the root
CatalogHref == <<"catalog.json">>
CollectionHref(coll) == <<coll.id, "collection.json">>
ItemHref(coll, item) == <<coll.id, item.id, item.id \o ".json">>

normalize_hrefs(coll) ==
    [coll EXCEPT !.href = CollectionHref(coll),
                 !.items = [i \in 1..Len(coll.items) |->
                              [coll.items[i] EXCEPT !.href = ItemHref(coll, coll.items[i])]]]

\* writing one file: its parent directories are made, an existing file is replaced
write(folder, path, content) ==
    [dirs |-> folder.dirs \cup {SubSeq(path, 1, k) : k \in 1..(Len(path) - 1)},
     files |-> {f \in folder.files : f.path # path} \cup {[path |-> path, content |-> content]}]

RECURSIVE SaveItems(_, _, _)
SaveItems(folder, items, i) ==
    IF i > Len(items) THEN folder
    ELSE SaveItems(write(folder, items[i].href, FileContent("Item", items[i].id, i)), items, i + 1)

\* catalog.save: one file per catalog, collection and item, at its href
save(folder, cat, coll) ==
    SaveItems(
        write(write(folder, cat.href, FileContent("Catalog", cat.id, 0)),
              coll.href, FileContent("Collection", coll.id, 0)),
        coll.items, 1)

\* what a read gave: the property read, and its value or the exception raised
NoResult == [op |-> "none", prop |-> "", ok |-> TRUE, value |-> None, exc |-> NoError]

\* a collection without summaries: its declared extensions and the lists of
\* its summaries, by property name
NoSummaries == [stac_extensions |-> <<>>, lists |-> <<>>]

----------------------------------------------------------------------------
(* The build: CatalogCreator.create_catalog *)

InputFolders ==
    { [geojson |-> g, json |-> j, other |-> o] :
        g \in 0..MaxFiles, j \in 0..MaxFiles, o \in 0..MaxOther }

Init ==
    /\ input_folder \in {f \in InputFolders : f.geojson + f.json <= MaxFiles}
    /\ output_folder \in {FolderOf(T) : T \in {U \in SUBSET OutputPaths : IsTree(U)}}
    /\ clean_previous_output \in BOOLEAN
    /\ pc = "start"
    /\ aborted_from = "none"
    /\ error = NoError
    /\ log = <<>>
    /\ todo = <<>>
    /\ dfs = <<>>
    /\ df = <<>>
    /\ row_index = 0
    /\ collection = NoCollection
    /\ catalog = NoCatalog
    /\ analysis_folder = {}
    /\ obj = NoItem
    /\ applied = <<>>
    /\ result = NoResult
    /\ summaries = NoSummaries

\* io.py line 69
CleanWarning ==
    [level |-> "warning", class |-> "", msg |-> "This action will remove the contents of the output folder"]

\* an exception leaves create_catalog
Raise(e) ==
    /\ pc' = "aborted"
    /\ aborted_from' = pc
    /\ error' = e

\* lines 131-139: the two precondition checks
Start ==
    /\ pc = "start"
    /\ IF is_input_folder_empty
       THEN /\ Raise(Exception("FileNotFoundError", "Your folder is empty! Download the data first."))
            /\ UNCHANGED <<todo, log>>
       ELSE IF ~is_output_folder_empty /\ ~clean_previous_output
       THEN /\ Raise(Exception("ValueError", "The output folder is not empty."))
            /\ UNCHANGED <<todo, log>>
       ELSE IF ~is_output_folder_empty /\ clean_previous_output
       THEN /\ pc' = "cleaning"
            /\ log' = Append(log, CleanWarning)
            /\ todo' = clean_output_folder
            /\ UNCHANGED <<aborted_from, error>>
       ELSE /\ pc' = "catalog"
            /\ UNCHANGED <<todo, log, aborted_from, error>>
    /\ UNCHANGED <<input_folder, output_folder, clean_previous_output, dfs, df,
                   row_index, collection, catalog, analysis_folder>>
    /\ UNCHANGED ext_vars

\* io.py lines 70-74: one unlink or rmdir of clean_output_folder
CleanStep ==
    /\ pc = "cleaning"
    /\ todo # <<>>
    /\ LET c == Head(todo)
       IN IF c.op = "rmdir" /\ Children(output_folder, c.path) # {}
          THEN /\ Raise(Exception("OSError", "Directory not empty"))
               /\ UNCHANGED <<output_folder, todo>>
          ELSE /\ output_folder' = IF c.op = "unlink" THEN unlink(output_folder, c.path)
                                   ELSE rmdir(output_folder, c.path)
               /\ todo' = Tail(todo)
               /\ pc' = IF Tail(todo) = <<>> THEN "catalog" ELSE "cleaning"
               /\ UNCHANGED <<aborted_from, error>>
    /\ UNCHANGED <<input_folder, clean_previous_output, log, dfs, df, row_index,
                   collection, catalog, analysis_folder>>
    /\ UNCHANGED ext_vars

\* line 141
NewCatalog ==
    /\ pc = "catalog"
    /\ catalog' = [NoCatalog EXCEPT !.id = "catalog_id"]
    /\ pc' = "loading"
    /\ UNCHANGED <<input_folder, output_folder, clean_previous_output, aborted_from,
                   error, log, todo, dfs, df, row_index, collection, analysis_folder>>
    /\ UNCHANGED ext_vars

\* variant: a new exception is raised that drops the cause
reraise_wrapped(e) == Exception("DataIntegrityError", "")

\* folder_as_geopandas, lines 58-63: log the reason, raise the exception again
reraise(e) == e
Except(e) ==
    /\ log' = log \o <<[level |-> "error", class |-> e.class, msg |-> e.msg]>>
    /\ Raise(reraise(e))

\* folder_as_geopandas, line 56: read the next file of the iterator
ReadFile ==
    /\ pc = "loading"
    /\ Len(dfs) < Len(file_iterator)
    /\ \E fn \in FileContents :
         LET r == read_geojson(fn)
         IN IF r.ok
            THEN /\ dfs' = Append(dfs, r.gdf)
                 /\ UNCHANGED <<pc, aborted_from, error, log>>
            ELSE /\ Except(r.exc)
                 /\ UNCHANGED dfs
    /\ UNCHANGED <<input_folder, output_folder, clean_previous_output, todo, df,
                   row_index, collection, catalog, analysis_folder>>
    /\ UNCHANGED ext_vars

\* folder_as_geopandas, line 57, and the rest of save_to_format("lno_10_days.csv", "csv")
Concat ==
    /\ pc = "loading"
    /\ Len(dfs) = Len(file_iterator)
    /\ IF dfs = <<>>
       THEN /\ Except(Exception("ValueError", "No objects to concatenate"))
            /\ UNCHANGED <<df, analysis_folder>>
       ELSE /\ df' = concat(dfs)
            /\ analysis_folder' =
                 IF save_to_format("csv") = "none" THEN analysis_folder
                 ELSE analysis_folder \cup
                        {[filename |-> "lno_10_days.csv", driver |-> save_to_format("csv")]}
            /\ pc' = "collection"
            /\ UNCHANGED <<aborted_from, error, log>>
    /\ UNCHANGED <<input_folder, output_folder, clean_previous_output, todo, dfs,
                   row_index, collection, catalog>>
    /\ UNCHANGED ext_vars

\* lines 146-169
CreateCollection ==
    /\ pc = "collection"
    /\ collection' = NewCollection(df)
    /\ pc' = "building"
    /\ UNCHANGED <<input_folder, output_folder, clean_previous_output, aborted_from,
                   error, log, todo, dfs, df, row_index, catalog, analysis_folder>>
    /\ UNCHANGED ext_vars

\* variant: each item is written to the output folder as soon as it is built
BuildItem_saving_each_item ==
    /\ pc = "building"
    /\ row_index < Len(df)
    /\ row_index' = row_index + 1
    /\ LET row == df[row_index + 1]
           r == gpd_line_to_item(row)
       IN IF r.ok
          THEN /\ collection' = add_item(collection, add_extensions(add_asset(r.item, row), row))
               /\ output_folder' = write(output_folder, ItemHref(collection, r.item),
                                         FileContent("Item", r.item.id, row_index + 1))
               /\ pc' = IF row_index + 1 = Len(df) THEN "linking" ELSE "building"
               /\ UNCHANGED <<aborted_from, error>>
          ELSE /\ Raise(r.exc)
               /\ UNCHANGED <<collection, output_folder>>
    /\ UNCHANGED <<input_folder, clean_previous_output, log, todo, dfs,
                   df, catalog, analysis_folder>>
    /\ UNCHANGED ext_vars

\* lines 171-175: one turn of the loop over the rows
BuildItem ==
    /\ pc = "building"
    /\ row_index < Len(df)
    /\ row_index' = row_index + 1
    /\ LET row == df[row_index + 1]
           r == gpd_line_to_item(row)
       IN IF r.ok
          THEN /\ collection' = add_item(collection, add_extensions(add_asset(r.item, row), row))
               /\ pc' = IF row_index + 1 = Len(df) THEN "linking" ELSE "building"
               /\ UNCHANGED <<aborted_from, error>>
          ELSE /\ Raise(r.exc)
               /\ UNCHANGED collection
    /\ UNCHANGED <<input_folder, output_folder, clean_previous_output, log, todo, dfs,
                   df, catalog, analysis_folder>>
    /\ UNCHANGED ext_vars

\* variant: the catalog is saved without normalizing the hrefs
AddChild_skipping_normalize ==
    /\ pc = "linking"
    /\ catalog' = add_child(catalog, collection)
    /\ pc' = "saving"
    /\ UNCHANGED <<input_folder, output_folder, clean_previous_output, aborted_from,
                   error, log, todo, dfs, df, row_index, collection, analysis_folder>>
    /\ UNCHANGED ext_vars

\* line 178
AddChild ==
    /\ pc = "linking"
    /\ catalog' = add_child(catalog, collection)
    /\ pc' = "normalizing"
    /\ UNCHANGED <<input_folder, output_folder, clean_previous_output, aborted_from,
                   error, log, todo, dfs, df, row_index, collection, analysis_folder>>
    /\ UNCHANGED ext_vars

\* line 183
NormalizeHrefs ==
    /\ pc = "normalizing"
    /\ catalog' = [catalog EXCEPT !.href = CatalogHref]
    /\ collection' = normalize_hrefs(collection)
    /\ pc' = "saving"
    /\ UNCHANGED <<input_folder, output_folder, clean_previous_output, aborted_from,
                   error, log, todo, dfs, df, row_index, analysis_folder>>
    /\ UNCHANGED ext_vars

\* lines 188-191
Save ==
    /\ pc = "saving"
    /\ \E self_contained \in BOOLEAN :
         catalog' = [catalog EXCEPT !.catalog_type =
                        IF self_contained THEN "SELF_CONTAINED" ELSE "ABSOLUTE_PUBLISHED"]
    /\ output_folder' = save(output_folder, catalog, collection)
    /\ pc' = "done"
    /\ UNCHANGED <<input_folder, clean_previous_output, aborted_from, error, log, todo,
                   dfs, df, row_index, collection, analysis_folder>>
    /\ UNCHANGED ext_vars

Next ==
    \/ Start
    \/ CleanStep
    \/ NewCatalog
    \/ ReadFile
    \/ Concat
    \/ CreateCollection
    \/ BuildItem
    \/ AddChild
    \/ NormalizeHrefs
    \/ Save

Spec == Init /\ [][Next]_vars

----------------------------------------------------------------------------
(* The extensions of one item: SolSysExtension.ext, apply and the reads of
   its properties, with the EO and projection extensions of add_extensions *)

\* create_catalog is not running
NotBuilding ==
    /\ input_folder = [geojson |-> 0, json |-> 0, other |-> 0]
    /\ output_folder = EmptyFolder
    /\ clean_previous_output = FALSE
    /\ pc = "start"
    /\ aborted_from = "none"
    /\ error = NoError
    /\ log = <<>>
    /\ todo = <<>>
    /\ dfs = <<>>
    /\ df = <<>>
    /\ row_index = 0
    /\ collection = NoCollection
    /\ catalog = NoCatalog
    /\ analysis_folder = {}

\* the rows the item is built from
ExtRows ==
    {f \in Features : f.geometry = {<<0, 0>>, <<1, 1>>} /\ f.utc_start_time = 0
                        /\ f.diffraction_order = 1}

\* the arguments of apply: each is None when it is not given
TargetsArgs == {None, Value(<<"mars">>), Value(<<"mars", "phobos">>)}
LocalTimeArgs == {None} \cup {Value(mars_local_time(f)) : f \in ExtRows}
TargetClassArgs == {None, Value("planet")}

ExtInit ==
    /\ NotBuilding
    /\ obj \in {add_asset(gpd_line_to_item(f).item, f) : f \in ExtRows}
    /\ applied = <<>>
    /\ result = NoResult
    /\ summaries = NoSummaries

\* SolSysExtension.ext(obj, add_if_missing).apply(targets, local_time, target_class)
ExtApply ==
    /\ Len(applied) < MaxApplies
    /\ \E add_if_missing \in BOOLEAN, targets \in TargetsArgs, local_time \in LocalTimeArgs,
          target_class \in TargetClassArgs :
         LET r == ext(obj, add_if_missing)
         IN IF r.ok
            THEN /\ obj' = apply(r.item, targets, local_time, target_class)
                 /\ applied' = Append(applied, [targets |-> targets, local_time |-> local_time,
                                                target_class |-> target_class])
                 /\ result' = NoResult
            ELSE /\ result' = [op |-> "ext", prop |-> "", ok |-> FALSE, value |-> None,
                               exc |-> r.exc]
                 /\ UNCHANGED <<obj, applied>>
    /\ UNCHANGED build_vars
    /\ UNCHANGED summaries

\* the getter of a property
Getter(item, prop) ==
    IF prop = TARGETS_PROPS THEN get_targets(item)
    ELSE IF prop = LOCAL_TIME_PROPS THEN get_local_time(item)
    ELSE get_target_class(item)

\* SolSysExtension.ext(obj, add_if_missing).targets, .local_time or .target_class
ExtRead ==
    /\ \E add_if_missing \in BOOLEAN, prop \in {TARGETS_PROPS, LOCAL_TIME_PROPS, TARGET_CLASS_PROPS} :
         LET r == ext(obj, add_if_missing)
             g == Getter(r.item, prop)
         IN IF r.ok
            THEN /\ obj' = r.item
                 /\ result' = [op |-> "read", prop |-> prop, ok |-> g.ok, value |-> g.value,
                               exc |-> g.exc]
            ELSE /\ result' = [op |-> "ext", prop |-> "", ok |-> FALSE, value |-> None,
                               exc |-> r.exc]
                 /\ UNCHANGED obj
    /\ UNCHANGED applied
    /\ UNCHANGED build_vars
    /\ UNCHANGED summaries

\* EOExtension.ext(obj, add_if_missing=True).apply(bands)
ExtEO ==
    /\ obj' = eo(obj)
    /\ result' = NoResult
    /\ UNCHANGED applied
    /\ UNCHANGED build_vars
    /\ UNCHANGED summaries

\* ProjectionExtension.ext(obj, add_if_missing=True).apply(wkt2=default_wkt)
ExtProj ==
    /\ obj' = proj(obj)
    /\ result' = NoResult
    /\ UNCHANGED applied
    /\ UNCHANGED build_vars
    /\ UNCHANGED summaries

ExtNext ==
    \/ ExtApply
    \/ ExtRead
    \/ ExtEO
    \/ ExtProj

ExtSpec == ExtInit /\ [][ExtNext]_vars

----------------------------------------------------------------------------
(* The summaries of a collection: SolSysExtension.summaries and the
   properties of SummariesSolSysExtension *)

\* a Python tuple, as against a list
Tuple(elems) == [is_none |-> FALSE, is_tuple |-> TRUE, elems |-> elems]

\* self.summaries.get_list(prop): the list, or None when there is none
get_list(lists, prop) == IF prop \in DOMAIN lists THEN Value(lists[prop]) ELSE None

\* self._set_summary(prop, v): None removes the summary, a list replaces it
set_summary(lists, prop, v) ==
    IF v = None THEN [k \in DOMAIN lists \ {prop} |-> lists[k]]
    ELSE (prop :> v.value) @@ lists

\* the getters of SummariesSolSysExtension: targets returns
\* (self.summaries.get_list(TARGETS_PROPS),), a tuple of one element
summaries_targets(lists) == Tuple(<<get_list(lists, TARGETS_PROPS)>>)
summaries_local_time(lists) == get_list(lists, LOCAL_TIME_PROPS)
summaries_target_class(lists) == get_list(lists, TARGET_CLASS_PROPS)

SummariesGetter(lists, prop) ==
    IF prop = TARGETS_PROPS THEN summaries_targets(lists)
    ELSE IF prop = LOCAL_TIME_PROPS THEN summaries_local_time(lists)
    ELSE summaries_target_class(lists)

\* SolSysExtension.summaries(obj, add_if_missing), obj a collection
summaries_ext(coll, add_if_missing) == ensure_has_extension(coll, SCHEMA_URI, add_if_missing)

\* the lists a summary is set to, by property (None removes it)
SummaryLists(prop) ==
    IF prop = TARGETS_PROPS THEN {<<"mars">>, <<"mars", "phobos">>, <<>>}
    ELSE IF prop = LOCAL_TIME_PROPS
    THEN {<<mars_local_time(f)>> : f \in ExtRows} \cup {<<>>}
    ELSE {<<"planet">>, <<"planet", "satellite">>}

SummariesInit ==
    /\ NotBuilding
    /\ obj = NoItem
    /\ applied = <<>>
    /\ result = NoResult
    /\ summaries = NoSummaries

\* SolSysExtension.summaries(obj, add_if_missing).<property> = v
SetSummary ==
    /\ \E add_if_missing \in BOOLEAN, prop \in {TARGETS_PROPS, LOCAL_TIME_PROPS, TARGET_CLASS_PROPS} :
         \E v \in {Value(l) : l \in SummaryLists(prop)} \cup {None} :
           LET r == summaries_ext(summaries, add_if_missing)
           IN IF r.ok
              THEN /\ summaries' = [r.item EXCEPT !.lists = set_summary(@, prop, v)]
                   /\ result' = [op |-> "set", prop |-> prop, ok |-> TRUE, value |-> v,
                                 exc |-> NoError]
              ELSE /\ result' = [op |-> "ext", prop |-> "", ok |-> FALSE, value |-> None,
                                 exc |-> r.exc]
                   /\ UNCHANGED summaries
    /\ UNCHANGED <<obj, applied>>
    /\ UNCHANGED build_vars

\* SolSysExtension.summaries(obj, add_if_missing).<property>
ReadSummary ==
    /\ \E add_if_missing \in BOOLEAN, prop \in {TARGETS_PROPS, LOCAL_TIME_PROPS, TARGET_CLASS_PROPS} :
         LET r == summaries_ext(summaries, add_if_missing)
         IN IF r.ok
            THEN /\ summaries' = r.item
                 /\ result' = [op |-> "read", prop |-> prop, ok |-> TRUE,
                               value |-> SummariesGetter(r.item.lists, prop), exc |-> NoError]
            ELSE /\ result' = [op |-> "ext", prop |-> "", ok |-> FALSE, value |-> None,
                               exc |-> r.exc]
                 /\ UNCHANGED summaries
    /\ UNCHANGED <<obj, applied>>
    /\ UNCHANGED build_vars

SummariesNext ==
    \/ SetSummary
    \/ ReadSummary

SummariesSpec == SummariesInit /\ [][SummariesNext]_vars

----------------------------------------------------------------------------
(* The build of a table whose rows differ in martian_year, ls and
   local_solar_time, from the point where every file has been read *)

MartianYears == {34, 35}
SolarLongitudes == {9, 10, 150}
LocalSolarTimes == {2, 12}

MarsTimeFeatures ==
    { [psa_lid |-> i, geometry |-> {<<0, 0>>, <<1, 1>>}, utc_start_time |-> 0,
       utc_end_time |-> 1, diffraction_order |-> 1, hdf5_filename |-> i \o ".h5",
       martian_year |-> y, ls |-> l, local_solar_time |-> t]
      : i \in PsaLids, y \in MartianYears, l \in SolarLongitudes, t \in LocalSolarTimes }

LocalTimeInit ==
    /\ \E n \in 1..MaxFiles :
         /\ input_folder = [geojson |-> n, json |-> 0, other |-> 0]
         /\ dfs \in { [i \in 1..n |-> read_geojson([kind |-> "geojson", features |-> <<fs[i]>>]).gdf]
                      : fs \in [1..n -> MarsTimeFeatures] }
    /\ output_folder = EmptyFolder
    /\ clean_previous_output = FALSE
    /\ pc = "loading"
    /\ aborted_from = "none"
    /\ error = NoError
    /\ log = <<>>
    /\ todo = <<>>
    /\ df = <<>>
    /\ row_index = 0
    /\ collection = NoCollection
    /\ catalog = [NoCatalog EXCEPT !.id = "catalog_id"]
    /\ analysis_folder = {}
    /\ obj = NoItem
    /\ applied = <<>>
    /\ result = NoResult
    /\ summaries = NoSummaries

LocalTimeNext ==
    \/ Concat
    \/ CreateCollection
    \/ BuildItem
    \/ AddChild
    \/ NormalizeHrefs
    \/ Save

LocalTimeSpec == LocalTimeInit /\ [][LocalTimeNext]_vars

----------------------------------------------------------------------------
(* Claims *)

Entries(folder) == folder.dirs \cup FilePaths(folder)
EligibleFiles == input_folder.geojson + input_folder.json
InputEntries == EligibleFiles + input_folder.other
IsBelow(q, p) == Len(q) > Len(p) /\ SubSeq(q, 1, Len(p)) = p
StacFiles(folder) == {f \in folder.files : f.content.type \in {"Catalog", "Collection", "Item"}}
AfterPreconditions == {"catalog", "loading", "collection", "building", "linking", "normalizing", "saving"}

\* C1: when the input folder is not empty, the output folder is not empty and
\* clean_previous_output is false, create_catalog fails with the output-not-empty
\* error (a ValueError); from the start of the call to the failure the output
\* folder is untouched and no table is loaded.
C1_OutputNotEmptyFailsWithoutWrites ==
    [][ (pc = "start" /\ InputEntries > 0 /\ Entries(output_folder) # {}
         /\ ~clean_previous_output)
        => /\ pc' = "aborted"
           /\ error'.class = "ValueError"
           /\ error'.msg = "The output folder is not empty."
           /\ output_folder' = output_folder
           /\ dfs' = <<>> /\ df' = <<>> ]_vars

C1_Witness ==
    /\ pc = "aborted" /\ aborted_from = "start" /\ error.class = "ValueError"
    /\ ~clean_previous_output
    /\ output_folder.dirs # {} /\ output_folder.files # {}
    /\ df = <<>>

\* C2: with a non-empty output folder and clean_previous_output true, cleaning
\* starts; every step of it removes exactly one entry, one with nothing left
\* below it, changes no other entry and never fails; the output root is empty
\* when cleaning ends, and stays empty from then until the catalog is saved, so
\* the deletion is complete before the table is loaded.
C2_CleanedBeforeLoad ==
    [][ /\ (pc = "start" /\ InputEntries > 0 /\ Entries(output_folder) # {}
            /\ clean_previous_output) => pc' = "cleaning"
        /\ pc = "cleaning" =>
             /\ pc' \in {"cleaning", "catalog"}
             /\ \E p \in Entries(output_folder) :
                  /\ Entries(output_folder') = Entries(output_folder) \ {p}
                  /\ \A q \in Entries(output_folder) : ~IsBelow(q, p)
             /\ output_folder'.files \subseteq output_folder.files
             /\ dfs' = <<>> /\ df' = <<>>
        /\ pc' \in AfterPreconditions =>
             /\ Entries(output_folder') = {}
             /\ (pc' = "catalog" => (dfs' = <<>> /\ df' = <<>>)) ]_vars

C2_Witness ==
    /\ pc = "loading" /\ clean_previous_output
    /\ CleanWarning \in Range(log)
    /\ Entries(output_folder) = {}
    /\ dfs # <<>>

\* C3: when the input folder holds no *.geojson and no *.json file, whatever
\* else it holds, create_catalog fails at once with the empty-input error
\* (FileNotFoundError) and the output folder is untouched.
C3_NoEligibleFilesFailsFast ==
    [][ (pc = "start" /\ EligibleFiles = 0)
        => /\ pc' = "aborted"
           /\ error'.class = "FileNotFoundError"
           /\ output_folder' = output_folder ]_vars

\* C4: when the build fails while the table is loaded or while an item is built,
\* no catalog, collection or item file has been written to the output folder,
\* also when rows before the offending one were built.
C4_NoPartialSuccess ==
    (pc = "aborted" /\ aborted_from \in {"loading", "building"})
        => StacFiles(output_folder) = {}

C4_Witness ==
    /\ pc = "aborted" /\ aborted_from = "building"
    /\ Len(collection.items) >= 1
    /\ StacFiles(output_folder) = {}

LoadFailures ==
    {read_geojson(fn).exc : fn \in {c \in FileContents : ~read_geojson(c).ok}}
    \cup {Exception("ValueError", "No objects to concatenate")}

Rows == Range(df)
WithGeometry == {r \in Rows : r.geometry # NullGeometry}
Items == Range(collection.items)
HasCollection == collection.id # ""

\* C6: the extent of the collection is exact for the table it was computed
\* from: its box contains every vertex of every record's footprint and each of
\* its four sides is attained by one of them; its start is the earliest
\* utc_start_time and its end the latest utc_end_time of the records, and
\* start <= end.
C6_ExtentExact ==
    HasCollection =>
        LET box == collection.extent.spatial
            t == collection.extent.temporal
        IN /\ WithGeometry # {} =>
                /\ \A r \in WithGeometry : \A p \in r.geometry :
                      box[1] <= p[1] /\ box[2] <= p[2] /\ p[1] <= box[3] /\ p[2] <= box[4]
                /\ \A k \in 1..2 : \E r \in WithGeometry : \E p \in r.geometry :
                      box[k] = p[k] 
                /\ \A k \in 1..2 : \E r \in WithGeometry : \E p \in r.geometry :
                      box[k + 2] = p[k]
           /\ \A r \in Rows :
                 to_datetime(t[1]) <= r.utc_start_time /\ r.utc_end_time <= to_datetime(t[2])
           /\ \E r \in Rows : to_datetime(t[1]) = r.utc_start_time
           /\ \E r \in Rows : to_datetime(t[2]) = r.utc_end_time
           /\ t[1] <= t[2]

C6_Witness ==
    /\ pc = "building" /\ Len(df) = 2
    /\ collection.extent.spatial = <<0, 0, 2, 2>>
    /\ collection.extent.temporal = <<0, 2>>

\* C7: in every state of the build, so after every add_item, the collection's
\* box contains the bbox of every item added so far and its interval contains
\* [start_datetime, end_datetime] of every item added so far.
C7_ExtentBoundsItemsAtEveryStep ==
    \A it \in Items :
        /\ collection.extent.spatial[1] <= it.bbox[1]
        /\ collection.extent.spatial[2] <= it.bbox[2]
        /\ it.bbox[3] <= collection.extent.spatial[3]
        /\ it.bbox[4] <= collection.extent.spatial[4]
        /\ collection.extent.temporal[1] <= it.properties["start_datetime"]
        /\ it.properties["end_datetime"] <= collection.extent.temporal[2]

C7_Witness ==
    /\ pc = "building" /\ row_index = 1 /\ Len(df) = 2
    /\ Len(collection.items) = 1
    /\ collection.items[1].bbox # collection.extent.spatial
    /\ collection.items[1].properties["end_datetime"] < collection.extent.temporal[2]

\* the extent recomputed from a non-empty set of items
ExtentOfItems(its) ==
    [spatial |-> << MinOver({it.bbox[1] : it \in its}), MinOver({it.bbox[2] : it \in its}),
                    MaxOver({it.bbox[3] : it \in its}), MaxOver({it.bbox[4] : it \in its}) >>,
     temporal |-> << MinOver({it.properties["start_datetime"] : it \in its}),
                     MaxOver({it.properties["end_datetime"] : it \in its}) >>]

\* C8: after a successful build the items of the collection are the rows of the
\* table, one item per row and in row order, and the extent stored on the
\* collection equals the extent recomputed from those items.
C8_ExtentEqualsRecomputedFromItems ==
    pc = "done" =>
        /\ Len(collection.items) = Len(df)
        /\ \A i \in 1..Len(df) :
              /\ collection.items[i].id = df[i].psa_lid
              /\ collection.items[i].geometry = df[i].geometry
        /\ collection.extent = ExtentOfItems(Items)

C8_Witness ==
    /\ pc = "done" /\ Len(collection.items) = 2
    /\ collection.items[1].bbox # collection.items[2].bbox
    /\ collection.items[1].properties["start_datetime"]
         # collection.items[2].properties["start_datetime"]

SubCollections == Range(collection.children)

\* C9 as stated: the build makes one sub-collection per distinct
\* diffraction_order, under the root collection, and every record is an item
\* of the sub-collection of its own diffraction_order and of no other.
C9_PartitionedByDiffractionOrder ==
    pc = "done" =>
        /\ Cardinality(SubCollections) = Cardinality({r.diffraction_order : r \in Rows})
        /\ \A r \in Rows : \E c \in SubCollections :
              /\ c.diffraction_order = r.diffraction_order
              /\ \E i \in 1..Len(c.items) : c.items[i].id = r.psa_lid

\* C9 as amended: create_catalog takes no discriminant and does not group; the
\* one collection lno-10-days-2018, the only child of the catalog, has no
\* sub-collection and holds one item per input row, in row order, whatever the
\* rows' diffraction_order: no row is dropped and none is added twice.
C9_SingleCollectionHoldsEveryRow ==
    pc = "done" =>
        /\ collection.children = <<>>
        /\ catalog.children = <<collection.id>>
        /\ Len(collection.items) = Len(df)
        /\ \A i \in 1..Len(df) :
              /\ collection.items[i].id = df[i].psa_lid
              /\ collection.items[i].assets["dataformat"].href = df[i].hdf5_filename
              /\ collection.items[i].geometry = df[i].geometry

C9_Witness ==
    /\ pc = "done" /\ Len(df) = 2
    /\ df[1].diffraction_order # df[2].diffraction_order
    /\ df[1].psa_lid = df[2].psa_lid
    /\ Len(collection.items) = 2

\* C10: after a successful build no two items of the catalog have the same id,
\* and there is one item file per input row.
C10_ItemIdsUnique ==
    pc = "done" =>
        /\ \A i, j \in 1..Len(collection.items) :
              collection.items[i].id = collection.items[j].id => i = j
        /\ Cardinality({f \in output_folder.files : f.content.type = "Item"}) = Len(df)

ExtensionUris == {EO_SCHEMA_URI, SCHEMA_URI, PROJECTION_SCHEMA_URI}

\* C11: every item added to the collection has exactly one asset, under the key
\* "dataformat", with the hdf5_filename of its row as href and the HDF5 media
\* type, declares each of the EO, ssys and projection schema URIs, and carries
\* the properties the three extensions apply; for every row, in every row order.
C11_DataformatAssetAndThreeExtensions ==
    \A i \in 1..Len(collection.items) :
        LET it == collection.items[i]
        IN /\ DOMAIN it.assets = {"dataformat"}
           /\ it.assets["dataformat"].href = df[i].hdf5_filename
           /\ it.assets["dataformat"].media_type = "application/x-hdf5"
           /\ Range(it.stac_extensions) = ExtensionUris
           /\ Len(it.stac_extensions) = 3
           /\ {"eo:bands", TARGETS_PROPS, LOCAL_TIME_PROPS, TARGET_CLASS_PROPS, "proj:wkt2"}
                \subseteq DOMAIN it.properties
           /\ it.properties["eo:bands"] = Value(bands)
           /\ get_targets(it).ok /\ get_targets(it).value = Value(<<"mars">>)
           /\ get_local_time(it).ok
           /\ get_local_time(it).value = Value(mars_local_time(df[i]))
           /\ get_target_class(it).ok /\ get_target_class(it).value = Value("planet")
           /\ it.properties["proj:wkt2"] = Value("default_wkt")

C11_Witness ==
    /\ pc = "done" /\ Len(collection.items) = 2
    /\ df[1].psa_lid = "p2" /\ df[2].psa_lid = "p1"
    /\ collection.items[1].assets["dataformat"].href = "p2.h5"
    /\ collection.items[2].assets["dataformat"].href = "p1.h5"

\* the stage of a position of create_catalog: 1 precondition checks, 2 load,
\* 3 build collection, 4 link, 5 normalize, 6 persist, 7 persisted
StageOf(p) ==
    IF p \in {"start", "cleaning"} THEN 1
    ELSE IF p \in {"catalog", "loading"} THEN 2
    ELSE IF p \in {"collection", "building"} THEN 3
    ELSE IF p = "linking" THEN 4
    ELSE IF p = "normalizing" THEN 5
    ELSE IF p = "saving" THEN 6
    ELSE 7

\* C12: the stages come in the order precondition checks, load, build
\* collection, link, normalize, persist, none skipped; catalog.save runs only
\* when every row is an item of the collection, the collection is the child of
\* the catalog and the hrefs are normalized under the output root; a failure
\* ends the build where it happens and nothing changes after it, nor after the
\* save; the save sets one of the two catalog types, and none is set before.
C12_StagesInOrder ==
    [][ /\ pc = "aborted" => vars' = vars
        /\ pc = "done" => vars' = vars
        /\ (pc' = "aborted" /\ pc # "aborted") =>
              /\ aborted_from' = pc /\ error' # NoError
              /\ output_folder' = output_folder
              /\ collection' = collection /\ catalog' = catalog
        /\ pc' # "aborted" => StageOf(pc') \in {StageOf(pc), StageOf(pc) + 1}
        /\ pc' # "done" => catalog'.catalog_type = "none"
        /\ pc' = "done" =>
              /\ pc = "saving"
              /\ Len(collection.items) = Len(df) /\ row_index = Len(df)
              /\ \A i \in 1..Len(df) :
                    /\ collection.items[i].id = df[i].psa_lid
                    /\ collection.items[i].href = ItemHref(collection, collection.items[i])
              /\ catalog.children = <<collection.id>>
              /\ catalog.href = CatalogHref
              /\ collection.href = CollectionHref(collection)
              /\ catalog'.catalog_type \in {"SELF_CONTAINED", "ABSOLUTE_PUBLISHED"} ]_vars

C12_Witness ==
    /\ pc = "done" /\ Len(df) = 2
    /\ CleanWarning \in Range(log)
    /\ catalog.catalog_type = "ABSOLUTE_PUBLISHED"
    /\ Cardinality(StacFiles(output_folder)) = 4

SsysProps == {TARGETS_PROPS, LOCAL_TIME_PROPS, TARGET_CLASS_PROPS}
\* the argument an apply call gave for a property
Arg(a, prop) ==
    IF prop = TARGETS_PROPS THEN a.targets
    ELSE IF prop = LOCAL_TIME_PROPS THEN a.local_time
    ELSE a.target_class
Full(a) == \A prop \in SsysProps : Arg(a, prop) # None

\* C13: after SolSysExtension.ext(item, add_if_missing=True).apply(...) the three
\* properties hold exactly the arguments of that call, whatever earlier calls
\* gave, and the ssys schema URI is declared once; a call with the arguments of
\* the call before it leaves the item (properties, declared URIs, assets) as it
\* was.
C13_ApplyIdempotentLastWins ==
    [][ Len(applied') = Len(applied) + 1 =>
          /\ \A prop \in SsysProps :
                /\ prop \in DOMAIN obj'.properties
                /\ obj'.properties[prop] = Arg(Last(applied'), prop)
          /\ has_extension(obj', SCHEMA_URI)
          /\ Cardinality(Range(obj'.stac_extensions)) = Len(obj'.stac_extensions)
          /\ (applied # <<>> /\ Last(applied') = Last(applied)) => obj' = obj ]_vars

C13_Witness ==
    /\ Len(applied) = 2 /\ applied[1] = applied[2] /\ Full(applied[1])
    /\ applied[1].targets = Value(<<"mars", "phobos">>)
    /\ get_targets(obj).value = Value(<<"mars", "phobos">>)

\* C14: a read of targets, local_time or target_class of an item whose property
\* is absent or None raises RequiredPropertyMissing naming the property; a read
\* of a property that is set returns the value the last apply gave it; a read
\* changes neither the properties nor the assets of the item.
C14_ReadOfUnsetPropertyFails ==
    [][ result'.op = "read" =>
          LET v == get_property(obj.properties, result'.prop)
          IN /\ obj'.properties = obj.properties
             /\ obj'.assets = obj.assets
             /\ v = None =>
                   /\ ~result'.ok
                   /\ result'.exc = RequiredPropertyMissing(result'.prop)
             /\ v # None =>
                   /\ result'.ok /\ result'.value = v
                   /\ applied # <<>> /\ v = Arg(Last(applied), result'.prop) ]_vars

C14_Witness ==
    /\ result.op = "read" /\ result.prop = TARGETS_PROPS
    /\ TARGETS_PROPS \notin DOMAIN obj.properties
    /\ ~result.ok /\ result.exc = RequiredPropertyMissing("ssys:targets")
    /\ "eo:bands" \in DOMAIN obj.properties

\* C15: a call of SolSysExtension.apply adds or overwrites the three keys
\* ssys:targets, ssys:local_time and ssys:target_class only: every other key of
\* the properties (core, eo:*, proj:*) keeps its value, no key is removed and
\* the assets are unchanged, whether the EO and projection extensions were
\* applied before it or not.
C15_ApplyWritesOnlySsysKeys ==
    [][ Len(applied') = Len(applied) + 1 =>
          /\ DOMAIN obj'.properties = DOMAIN obj.properties \cup SsysProps
          /\ \A k \in DOMAIN obj.properties \ SsysProps :
                obj'.properties[k] = obj.properties[k]
          /\ obj'.assets = obj.assets
          /\ obj'.id = obj.id /\ obj'.geometry = obj.geometry /\ obj'.bbox = obj.bbox ]_vars

C15_Witness ==
    /\ obj.stac_extensions = <<PROJECTION_SCHEMA_URI, SCHEMA_URI, EO_SCHEMA_URI>>
    /\ Len(applied) = 2
    /\ obj.properties["eo:bands"] = Value(bands)
    /\ obj.properties["proj:wkt2"] = Value("default_wkt")
    /\ obj.properties["platform"] = "exomars-trace-gas-orbiter"

\* the code point of a character of a local time string
Ord(c) == 47 + (CHOOSE i \in 1..11 : (Digits \o <<":">>)[i] = c)

RECURSIVE StringLess(_, _)
\* a < b for Python strings: character by character
StringLess(a, b) ==
    IF b = <<>> THEN FALSE
    ELSE IF a = <<>> THEN TRUE
    ELSE IF Head(a) # Head(b) THEN Ord(Head(a)) < Ord(Head(b))
    ELSE StringLess(Tail(a), Tail(b))

\* (martian_year, ls, local_solar_time) of a < that of b, field by field
TripleLess(a, b) ==
    \/ a.martian_year < b.martian_year
    \/ a.martian_year = b.martian_year /\ a.ls < b.ls
    \/ a.martian_year = b.martian_year /\ a.ls = b.ls
         /\ a.local_solar_time < b.local_solar_time

RECURSIVE Fields(_)
\* the numbers a string of digits and colons spells, colon by colon
Fields(str_) ==
    IF str_ = <<>> THEN <<0>>
    ELSE LET f == Fields(Front(str_))
             c == Last(str_)
         IN IF c = ":" THEN Append(f, 0)
            ELSE [f EXCEPT ![Len(f)] = 10 * @ + (Ord(c) - 48)]

\* C16: the ssys:local_time of every built item spells martian_year, ls and
\* local_solar_time of its row, joined by colons, and for any two items the
\* strings compare, character by character, as the triples of their rows
\* compare numerically.
C16_LocalTimeSortsAsTheTriples ==
    \A i, j \in 1..Len(collection.items) :
        LET a == collection.items[i].properties[LOCAL_TIME_PROPS].value
            b == collection.items[j].properties[LOCAL_TIME_PROPS].value
        IN /\ Fields(a) = <<df[i].martian_year, df[i].ls, df[i].local_solar_time>>
           /\ StringLess(a, b) <=> TripleLess(df[i], df[j])

\* cli.py: the values of FileFormat
FileFormat == {"shp", "geosjon", "gpkg", "other"}

\* the driver the claim gives a flag
ClaimedDriver(fmt_name) ==
    IF fmt_name \in {"geosjon", "geojson"} THEN "GeoJSON"
    ELSE IF fmt_name \in {"gpkg", "geopackage"} THEN "GPKG"
    ELSE "ESRI Shapefile"

\* C17: save_to_format writes one export for every flag: GeoJSON for the
\* GeoJSON flag, GeoPackage for the geopackage flag and a shapefile for any
\* other value, so for every FileFormat value and for the "csv" of
\* create_catalog, whose export exists once the table is loaded.
C17_EveryFlagWritesOneExport ==
    pc = "collection" =>
        /\ \A fmt_name \in FileFormat \cup {"csv"} :
              save_to_format(fmt_name) = ClaimedDriver(fmt_name)
        /\ analysis_folder = {[filename |-> "lno_10_days.csv", driver |-> "ESRI Shapefile"]}

\* C18: the properties of every built item hold the domain attributes of its
\* row, here its diffraction_order, with the value of the row.
C18_PropertiesHoldDomainAttributes ==
    \A i \in 1..Len(collection.items) :
        /\ "diffraction_order" \in DOMAIN collection.items[i].properties
        /\ collection.items[i].properties["diffraction_order"] = df[i].diffraction_order

\* the fixed mission metadata of an item
Stamped(it) ==
    /\ {"mission", "instruments", "constellation", "platform"} \subseteq DOMAIN it.properties
    /\ it.properties["mission"] = "ExoMars"
    /\ it.properties["instruments"] = <<"NOMAD">>
    /\ it.properties["constellation"] = "exomars"
    /\ it.properties["platform"] = "exomars-trace-gas-orbiter"

\* C19 as stated: the item gpd_line_to_item returns for a row, and every item
\* of the collection, carries mission ExoMars, instruments [NOMAD],
\* constellation exomars and the one platform.
C19_BuilderStampsMissionMetadata ==
    /\ \A r \in WithGeometry : Stamped(gpd_line_to_item(r).item)
    /\ \A it \in Items : Stamped(it)

\* C19 as amended: every item of the collection, from the moment it is added,
\* carries mission ExoMars, instruments [NOMAD], constellation exomars and the
\* one platform, whatever its row holds; the item gpd_line_to_item returns
\* carries the platform and the constellation, instruments [nomad] and no
\* mission: add_extensions stamps the mission and instruments [NOMAD].
C19_CollectionItemsCarryMissionMetadata ==
    /\ \A i \in 1..Len(collection.items) : Stamped(collection.items[i])
    /\ \A r \in WithGeometry :
          LET it == gpd_line_to_item(r).item
          IN /\ "mission" \notin DOMAIN it.properties
             /\ it.properties["instruments"] = <<"nomad">>
             /\ it.properties["constellation"] = "exomars"
             /\ it.properties["platform"] = "exomars-trace-gas-orbiter"
             /\ Stamped(add_extensions(add_asset(it, r), r))

C19_Witness ==
    /\ pc = "done" /\ Len(collection.items) = 2
    /\ collection.items[1].id # collection.items[2].id
    /\ collection.items[1].geometry # collection.items[2].geometry
    /\ Stamped(collection.items[1]) /\ Stamped(collection.items[2])

\* C20: when an apply that gave all three arguments is followed by an apply
\* that omits some of them, each omitted property is still a key of the
\* properties, holds None instead of the earlier value, and its read raises
\* RequiredPropertyMissing.
C20_OmittedArgumentIsStoredAsNone ==
    (Len(applied) >= 2 /\ Full(applied[Len(applied) - 1])) =>
        \A prop \in SsysProps :
            Arg(Last(applied), prop) = None =>
                /\ prop \in DOMAIN obj.properties
                /\ obj.properties[prop] = None
                /\ ~Getter(obj, prop).ok
                /\ Getter(obj, prop).exc = RequiredPropertyMissing(prop)
                /\ (result.op = "read" /\ result.prop = prop) =>
                      (~result.ok /\ result.exc = RequiredPropertyMissing(prop))

C20_Witness ==
    /\ Len(applied) = 2 /\ Full(applied[1])
    /\ applied[2].local_time = None
    /\ applied[2].targets # None /\ applied[2].target_class # None
    /\ obj.properties[LOCAL_TIME_PROPS] = None
    /\ result.op = "read" /\ result.prop = LOCAL_TIME_PROPS /\ ~result.ok

\* C21: on the summaries of a collection, setting targets, local_time or
\* target_class to a list stores that list and leaves the other two summaries
\* as they were, and reading a summary that has a list returns that list
\* itself, not a tuple or another wrapper around it.
C21_SummariesRoundTrip ==
    [][ /\ (result'.op = "set" /\ result'.value # None) =>
              /\ result'.prop \in DOMAIN summaries'.lists
              /\ summaries'.lists[result'.prop] = result'.value.value
              /\ \A k \in SsysProps \ {result'.prop} :
                    get_list(summaries'.lists, k) = get_list(summaries.lists, k)
        /\ (result'.op = "read" /\ result'.prop \in DOMAIN summaries.lists) =>
              /\ result'.value = Value(summaries.lists[result'.prop])
              /\ summaries'.lists = summaries.lists ]_vars

====
